---- MODULE Spec2Model ----
(***************************************************************************)
(* A model of the UniversalGP helpers:                                     *)
(*   universalgp/inf/logistic_regression.py  LogReg, FairLogReg,           *)
(*                                          EqOddsLogReg                   *)
(*   universalgp/util/train_helper.py        construct_from_flags          *)
(*   universalgp/util/util.py                vec_to_tri, log_cholesky_det  *)
(*   universalgp/datasets/sensitive_from_numpy.py  _inducing_inputs        *)
(*                                                                         *)
(* Real numbers are kept exact.  A value that lives in the log domain is   *)
(* the pair <<n, d>> standing for ln(n / d), in lowest terms:              *)
(*   <<1, 1>> is 0,  <<0, 1>> is -infinity,  <<1, 0>> is +infinity and     *)
(*   <<0, 0>> is NaN.  Adding two such values multiplies the fractions and *)
(*   log-sum-exp adds them.  A logit is the pair <<a, b>> standing for     *)
(*   ln(a / b), so that sigmoid(logit) = a / (a + b).                      *)
(***************************************************************************)
EXTENDS Integers, Sequences, FiniteSets, TLC

VARIABLES
    cls,            \* the class of the model object: LogReg, FairLogReg, EqOddsLogReg
    args,           \* self.args, the flags the model was built with
    features,       \* the features of the last inference call
    outputs,        \* the outputs (labels) of the last inference call
    is_train,       \* the is_train argument of the last inference call
    frame,          \* what the last inference call computed and returned
    n_calls,        \* inference calls made on the model so far
    n_train_calls,  \* of these, the calls with is_train true
    n_engine_calls, \* invocations of a debiasing parameter engine so far
    asm_in,         \* the arguments of a construct_from_flags call
    asm_result,     \* what the call returned or raised
    tri_vectors,    \* the D x M tensor handed to vec_to_tri
    tri_result,     \* what vec_to_tri returned or raised
    chol,           \* the matrix handed to log_cholesky_det
    chol_result,    \* what log_cholesky_det returned
    ind_in,         \* the arguments of an _inducing_inputs call
    ind_result      \* what _inducing_inputs returned

lrVars == <<cls, args, features, outputs, is_train, frame, n_calls, n_train_calls,
            n_engine_calls>>

asmVars == <<asm_in, asm_result>>

triVars == <<tri_vectors, tri_result>>

cholVars == <<chol, chol_result>>

indVars == <<ind_in, ind_result>>

vars == <<lrVars, asmVars, triVars, cholVars, indVars>>

\* ------------------------------------------------------------------ bounds

MaxBatch == 2
MaxCalls == 2
MaxOutputDim == 3
MaxLen == 6
MaxDim == 2
MaxTrain == 8
MaxInducing == 8

\* ------------------------------------------------------- exact arithmetic

RECURSIVE GCD(_, _)
GCD(a, b) == IF b = 0 THEN a ELSE GCD(b, a % b)

\* The pair <<n, d>> in lowest terms.
Norm(v) ==
    LET g == GCD(v[1], v[2])
    IN  IF g = 0 THEN <<0, 0>> ELSE <<v[1] \div g, v[2] \div g>>

\* x + y for two log-domain values: ln(a) + ln(b) = ln(a * b).
LogAdd(x, y) == Norm(<<x[1] * y[1], x[2] * y[2]>>)

\* -x for a log-domain value: -ln(n / d) = ln(d / n).
LogNeg(x) == <<x[2], x[1]>>

\* k * x for k in {0, 1}.
LogScale(k, x) == IF k = 1 THEN x ELSE <<1, 1>>

\* ln(exp(x) + exp(y)).
LogSumExp2(x, y) == Norm(<<x[1] * y[2] + y[1] * x[2], x[2] * y[2]>>)

RECURSIVE LogSum(_)
LogSum(s) == IF s = <<>> THEN <<1, 1>> ELSE LogAdd(Head(s), LogSum(Tail(s)))

\* ---------------------------------------------------- tensorflow operators

\* tf.math.log_sigmoid of a logit ln(a / b): ln(a / (a + b)).
log_sigmoid(logit) == Norm(<<logit[1], logit[1] + logit[2]>>)

\* The logit negated.
neg_logit(logit) == <<logit[2], logit[1]>>

\* tf.nn.sigmoid_cross_entropy_with_logits(labels=z, logits=x):
\*   z * -log(sigmoid(x)) + (1 - z) * -log(1 - sigmoid(x)).
sigmoid_cross_entropy_with_logits(z, x) ==
    LogAdd(LogScale(z, LogNeg(log_sigmoid(x))),
           LogScale(1 - z, LogNeg(log_sigmoid(neg_logit(x)))))

\* tf.squeeze(t, -1) of a (batch, 1) tensor.
squeeze(t) == [i \in DOMAIN t |-> t[i][1]]

\* tf.reduce_mean of a vector of log-domain values: [arg, cnt] stands for
\* (1 / cnt) * ln(arg).
reduce_mean(t) == [arg |-> LogSum(t), cnt |-> Len(t)]

\* The mean negated.
neg_mean(m) == [arg |-> LogNeg(m.arg), cnt |-> m.cnt]

\* tf.stack((a, b), axis=-1) of two vectors: a (batch, 2) tensor, last axis 0..1.
stack(a, b) == [i \in DOMAIN a |-> [k \in {0, 1} |-> IF k = 0 THEN a[i] ELSE b[i]]]

\* tf.gather_nd(params, indices): row i of the result is params[indices[i]].
gather_nd(params, indices) ==
    [i \in DOMAIN indices |-> params[indices[i][0]][indices[i][1]]]

\* tf.reduce_logsumexp over the last axis (of size 2).
reduce_logsumexp(t) == [i \in DOMAIN t |-> LogSumExp2(t[i][0], t[i][1])]

\* ------------------------------------------------------- debiasing tensors

\* A debiasing tensor has shape (y, s, y'), each entry a log-domain value.
AllZeroTensor == [y \in {0, 1} |-> [s \in {0, 1} |-> [yp \in {0, 1} |-> <<1, 1>>]]]

\* The logarithm of the identity: 0 where y' = y and -infinity elsewhere.
LogIdentityTensor ==
    [y \in {0, 1} |-> [s \in {0, 1} |-> [yp \in {0, 1} |->
        IF yp = y THEN <<1, 1>> ELSE <<0, 1>>]]]

\* A tensor that depends on (s, y') alone.
ParityTensor ==
    [y \in {0, 1} |-> [s \in {0, 1} |-> [yp \in {0, 1} |-> Norm(<<1 + 2 * s + yp, 4>>)]]]

\* A tensor whose eight entries all differ.
OddsTensor ==
    [y \in {0, 1} |-> [s \in {0, 1} |-> [yp \in {0, 1} |->
        Norm(<<1 + 4 * y + 2 * s + yp, 8>>)]]]

Tensors == {AllZeroTensor, LogIdentityTensor, ParityTensor, OddsTensor}

\* debiasing_params_target_rate(args) and debiasing_params_target_tpr(args) of
\* inf_vi_ybar: pure functions of the flags.
debiasing_params_target_rate(a) == a.target_rate_tensor

debiasing_params_target_tpr(a) == a.target_tpr_tensor

\* --------------------------------------------------- logistic_regression.py

Classes == {"LogReg", "FairLogReg", "EqOddsLogReg"}

\* The Dense layer of LogReg.__init__ applied to the inputs: one logit per
\* example, shape (batch, 1).  Input x in 1..3 gives the logit ln(x / (4 - x)).
Dense(inputs) == [i \in DOMAIN inputs |-> <<(<<inputs[i], 4 - inputs[i]>>)>>]

\* LogReg._l2_loss: the sum of the layer's regularisation losses, a function
\* of the weights, which no inference call changes.
_l2_loss(self) == "l2_loss"

\* LogReg._get_inputs: construct_input(features, self.args).
_get_inputs(self, f) == f.input

\* regr_loss + l2_loss, kept as the formal sum.
PlusL2(regr, l2) == [regr |-> regr, l2 |-> l2]

\* LogReg.inference
LogReg_inference(self, f, o, t) ==
    LET inputs == _get_inputs(self, f)
        logits == Dense(inputs)
        log_cond_prob ==
            [i \in DOMAIN logits |->
                <<LogNeg(sigmoid_cross_entropy_with_logits(o[i][1], logits[i][1]))>>]
        l2_loss == _l2_loss(self)
        regr_loss == neg_mean(reduce_mean(squeeze(log_cond_prob)))
    IN  [ret |-> [loss |-> PlusL2(regr_loss, l2_loss), regr_loss |-> regr_loss,
                  l2_loss |-> l2_loss],
         engine_calls |-> 0, sens_reads |-> 0, log_debias |-> "unset",
         weighted_log_lik |-> <<>>]

\* A memoised engine: the tensor is built on the first call of the run only.
_log_debiasing_parameters_cached(self) ==
    [value |-> IF self.cls = "EqOddsLogReg"
               THEN debiasing_params_target_tpr(self.args)
               ELSE debiasing_params_target_rate(self.args),
     invocations |-> IF n_engine_calls = 0 THEN 1 ELSE 0]

\* FairLogReg._log_debiasing_parameters, overridden by EqOddsLogReg: the
\* tensor the engine returns, and the one invocation of the engine it makes.
_log_debiasing_parameters(self) ==
    [value |-> IF self.cls = "EqOddsLogReg"
               THEN debiasing_params_target_tpr(self.args)
               ELSE debiasing_params_target_rate(self.args),
     invocations |-> 1]

\* The indices with the sensitive group first.
debias_indices_swapped(out_int, sens_attr) == stack(sens_attr, out_int)

\* The index tensor of line 78: tf.stack((out_int, sens_attr), axis=-1).
debias_indices(out_int, sens_attr) == stack(out_int, sens_attr)

\* The log-likelihoods stacked with label 1 first.
stack_log_lik_swapped(log_lik0, log_lik1) == stack(log_lik1, log_lik0)

\* The log-likelihood tensor of line 73: tf.stack((log_lik0, log_lik1), axis=-1).
stack_log_lik(log_lik0, log_lik1) == stack(log_lik0, log_lik1)

\* The training branch of FairLogReg.inference (lines 65 to 84).
FairLogReg_train(self, f, o) ==
    LET sens_attr == squeeze(f.sensitive)
        out_int == squeeze(o)
        logits == squeeze(Dense(_get_inputs(self, f)))
        log_lik1 == [i \in DOMAIN logits |-> log_sigmoid(logits[i])]
        log_lik0 == [i \in DOMAIN logits |-> log_sigmoid(neg_logit(logits[i]))]
        log_lik == stack_log_lik(log_lik0, log_lik1)
        engine == _log_debiasing_parameters(self)
        log_debias == engine.value
        log_debias_per_example == gather_nd(log_debias, debias_indices(out_int, sens_attr))
        weighted_log_lik ==
            [i \in DOMAIN log_lik |->
                [k \in {0, 1} |-> LogAdd(log_debias_per_example[i][k], log_lik[i][k])]]
        log_cond_prob == reduce_logsumexp(weighted_log_lik)
        regr_loss == neg_mean(reduce_mean(log_cond_prob))
        l2_loss == _l2_loss(self)
    IN  [ret |-> [loss |-> PlusL2(regr_loss, l2_loss), regr_loss |-> regr_loss,
                  l2_loss |-> l2_loss],
         engine_calls |-> engine.invocations, sens_reads |-> 1, log_debias |-> log_debias,
         weighted_log_lik |-> weighted_log_lik]

\* An inference that reweights whatever is_train says.
FairLogReg_inference_always(self, f, o, t) == FairLogReg_train(self, f, o)

\* FairLogReg.inference, inherited by EqOddsLogReg.
FairLogReg_inference(self, f, o, t) ==
    IF ~t THEN LogReg_inference(self, f, o, t) ELSE FairLogReg_train(self, f, o)

\* The method the call self.inference(...) is dispatched to.
inference(self, f, o, t) ==
    IF self.cls = "LogReg"
    THEN LogReg_inference(self, f, o, t)
    ELSE FairLogReg_inference(self, f, o, t)

\* The batches an inference call may be given: n examples, each an input, a
\* label of shape (1,) and a sensitive group of shape (1,).
Examples == [input : 1..3, y : {0, 1}, s : {0, 1}]

BatchesOfSize(n) == [1..n -> Examples]

Batches == UNION {BatchesOfSize(n) : n \in 1..MaxBatch}

FeaturesOf(b) ==
    [input |-> [i \in DOMAIN b |-> b[i].input],
     sensitive |-> [i \in DOMAIN b |-> <<b[i].s>>]]

OutputsOf(b) == [i \in DOMAIN b |-> <<b[i].y>>]

\* The flags a model is built with, as far as the debiasing engines read them.
ArgsSet ==
    { [target_rate_tensor |-> AllZeroTensor, target_tpr_tensor |-> AllZeroTensor],
      [target_rate_tensor |-> LogIdentityTensor, target_tpr_tensor |-> LogIdentityTensor],
      [target_rate_tensor |-> ParityTensor, target_tpr_tensor |-> OddsTensor],
      [target_rate_tensor |-> OddsTensor, target_tpr_tensor |-> ParityTensor] }

NoFrame ==
    [ret |-> "none", engine_calls |-> 0, sens_reads |-> 0, log_debias |-> "unset",
     weighted_log_lik |-> <<>>]

\* The model object after LogReg.__init__, before any call.
LRInit ==
    /\ cls \in Classes
    /\ args \in ArgsSet
    /\ features = <<>>
    /\ outputs = <<>>
    /\ is_train = FALSE
    /\ frame = NoFrame
    /\ n_calls = 0
    /\ n_train_calls = 0
    /\ n_engine_calls = 0

\* One call model.inference(features, outputs, is_train) on batch b.
InferenceCall(b, t) ==
    LET self == [cls |-> cls, args |-> args]
        r == inference(self, FeaturesOf(b), OutputsOf(b), t)
    IN  /\ features' = FeaturesOf(b)
        /\ outputs' = OutputsOf(b)
        /\ is_train' = t
        /\ frame' = r
        /\ n_calls' = n_calls + 1
        /\ n_train_calls' = n_train_calls + (IF t THEN 1 ELSE 0)
        /\ n_engine_calls' = n_engine_calls + r.engine_calls
        /\ UNCHANGED <<cls, args>>

\* A single inference call on a batch of any size up to MaxBatch.
Inference ==
    /\ n_calls = 0
    /\ \E b \in Batches, t \in BOOLEAN : InferenceCall(b, t)

\* One step of a training or evaluation run: the next batch (one example
\* here) is handed to inference.
RunStep ==
    /\ n_calls < MaxCalls
    /\ \E b \in BatchesOfSize(1), t \in BOOLEAN : InferenceCall(b, t)

\* ------------------------------------------------------------ train_helper.py

\* The names the packages cov, lik and inf and tf.train resolve (getattr
\* succeeds); any other name raises AttributeError.
cov_registry == {"SquaredExponential", "Linear"}

lik_registry == {"LikelihoodGaussian", "LikelihoodLogistic"}

inf_registry == {"Variational", "Exact"}

optimizer_registry == {"AdamOptimizer", "RMSPropOptimizer"}

\* The names of the trainable parameters an instance of a class holds, in the
\* order its get_params() returns them.
param_names(class) ==
    CASE class = "SquaredExponential" -> <<"length_scale", "sigma">>
      [] class = "Linear" -> <<"variance">>
      [] class = "LikelihoodGaussian" -> <<"noise">>
      [] OTHER -> <<>>

\* obj.get_params(): the parameters of this instance.
get_params(obj) ==
    [j \in 1..Len(param_names(obj.class)) |->
        [owner |-> obj.id, name |-> param_names(obj.class)[j]]]

\* sum(lists, start) of Python: start + lists[0] + lists[1] + ...
RECURSIVE py_sum(_, _)
py_sum(lists, start) ==
    IF lists = <<>> THEN start ELSE py_sum(Tail(lists), start \o Head(lists))

\* range(n), as the sequence 0, 1, ..., n - 1.
range(n) == [i \in 1..n |-> i - 1]

\* Line 23: [getattr(cov, flags['cov'])(input_dim, flags) for _ in range(output_dim)].
\* getattr is evaluated once per iteration, so not at all for an empty range.
cov_func_of(flags, input_dim, output_dim) ==
    LET rng == range(output_dim)
    IN  IF rng # <<>> /\ flags.cov \notin cov_registry
        THEN [raised |-> TRUE, exc |-> "AttributeError", value |-> <<>>]
        ELSE [raised |-> FALSE, exc |-> "",
              value |-> [i \in DOMAIN rng |->
                            [class |-> flags.cov, id |-> <<"cov", rng[i]>>,
                             input_dim |-> input_dim]]]

\* The kernels' parameters ahead of the likelihood's.
hyper_params_kernels_first(lik_func, cov_func) ==
    py_sum([i \in DOMAIN cov_func |-> get_params(cov_func[i])], <<>>) \o get_params(lik_func)

\* Line 25: lik_func.get_params() + sum([k.get_params() for k in cov_func], []).
hyper_params_of(lik_func, cov_func) ==
    get_params(lik_func) \o py_sum([i \in DOMAIN cov_func |-> get_params(cov_func[i])], <<>>)

Raise(exc) == [status |-> "raised", exc |-> exc]

\* A call that has not been made yet.
Pending == [status |-> "pending"]

\* construct_from_flags(flags, input_dim, output_dim, liklihood_name,
\*                      inducing_inputs, num_train)
construct_from_flags(flags, input_dim, output_dim, liklihood_name, inducing_inputs, num_train) ==
    LET cov_func == cov_func_of(flags, input_dim, output_dim)
        lik_func == [class |-> liklihood_name, id |-> <<"lik", 0>>]
        hyper_params == hyper_params_of(lik_func, cov_func.value)
        gp == [class |-> flags.inf, cov_func |-> cov_func.value, lik_func |-> lik_func,
               num_train |-> num_train, inducing_inputs |-> inducing_inputs]
    IN  IF cov_func.raised THEN Raise(cov_func.exc)
        ELSE IF liklihood_name \notin lik_registry THEN Raise("AttributeError")
        ELSE IF flags.inf \notin inf_registry THEN Raise("AttributeError")
        ELSE IF flags.optimizer \notin optimizer_registry THEN Raise("AttributeError")
        ELSE [status |-> "returned", gp |-> gp, hyper_params |-> hyper_params,
              optimizer |-> [class |-> flags.optimizer, lr |-> flags.lr]]

CovNames == cov_registry \cup {"NoSuchKernel"}

LikNames == lik_registry \cup {"NoSuchLikelihood"}

InfNames == inf_registry \cup {"NoSuchInference"}

OptimizerNames == optimizer_registry \cup {"NoSuchOptimizer"}

AsmInit ==
    /\ asm_in \in [flags : [cov : CovNames, inf : InfNames, optimizer : OptimizerNames,
                            lr : {"lr"}],
                   input_dim : {"input_dim"}, output_dim : 0..MaxOutputDim,
                   liklihood_name : LikNames, inducing_inputs : {"inducing_inputs"},
                   num_train : {"num_train"}]
    /\ asm_result = Pending

\* The call construct_from_flags(...) of the training script.
ConstructFromFlags ==
    /\ asm_result.status = "pending"
    /\ asm_result' = construct_from_flags(asm_in.flags, asm_in.input_dim, asm_in.output_dim,
                                          asm_in.liklihood_name, asm_in.inducing_inputs,
                                          asm_in.num_train)
    /\ UNCHANGED asm_in

\* -------------------------------------------------------------------- util.py

\* The names bound in the module namespace of util.py: its two imports
\* (lines 1 and 3) and the functions it defines.
util_globals ==
    {"copy", "tf", "init_list", "ceil_divide", "log_cholesky_det", "diag_mul",
     "logsumexp", "mat_square", "tri_vec_shape", "vec_to_tri", "get_flags"}

\* tri_vec_shape(N)[0]: the length of the vector an N x N triangle packs to.
tri_vec_shape(N) == (N * (N + 1)) \div 2

\* int(np.floor(0.5 * np.sqrt(M * 8. + 1) - 0.5)): the largest n with
\* (2n + 1)^2 <= 8M + 1.
floor_half_sqrt(M) ==
    CHOOSE n \in 0..M :
        /\ (2 * n + 1) * (2 * n + 1) <= 8 * M + 1
        /\ (2 * n + 3) * (2 * n + 3) > 8 * M + 1

\* np.stack(np.tril_indices(N)).T: the pairs <<i, j>>, j <= i, row by row.
RECURSIVE tril_indices_from(_, _)
tril_indices_from(i, N) ==
    IF i >= N THEN <<>>
    ELSE [j \in 1..(i + 1) |-> <<i, j - 1>>] \o tril_indices_from(i + 1, N)

tril_indices(N) == tril_indices_from(0, N)

\* The sum of updates[k] over the positions k >= from with indices[k] = idx.
RECURSIVE scatter_sum(_, _, _, _)
scatter_sum(indices, updates, idx, from) ==
    IF from > Len(indices) THEN 0
    ELSE (IF indices[from] = idx THEN updates[from] ELSE 0)
         + scatter_sum(indices, updates, idx, from + 1)

\* tf.scatter_nd(indices, updates, shape=[N, N]): zeros, plus each update
\* added at its index.
scatter_nd(indices, updates, N) ==
    [i \in 0..(N - 1) |-> [j \in 0..(N - 1) |-> scatter_sum(indices, updates, <<i, j>>, 1)]]

\* Lines 65 to 72 of vec_to_tri, for a module namespace that binds np.
vec_to_tri_body(vectors) ==
    LET M == Len(vectors[1])
        N == floor_half_sqrt(M)
        indices == tril_indices(N)
    IN  IF N * (N + 1) # 2 * M
        THEN [status |-> "raised", exc |-> "AssertionError"]
        ELSE [status |-> "returned", N |-> N,
              value |-> [d \in DOMAIN vectors |-> scatter_nd(indices, vectors[d], N)]]

\* vec_to_tri(vectors): line 65 looks np up in the module namespace first.
vec_to_tri(vectors) ==
    IF "np" \notin util_globals
    THEN [status |-> "raised", exc |-> "NameError"]
    ELSE vec_to_tri_body(vectors)

\* The D x M tensors handed to vec_to_tri: D rows of M entries.
EntryValues == {1, 2}

VectorTensors == UNION {[1..D -> [1..M -> EntryValues]] : D \in {1, 2}, M \in 1..MaxLen}

TriInit ==
    /\ tri_vectors \in VectorTensors
    /\ tri_result = Pending

\* The call vec_to_tri(vectors).
VecToTri ==
    /\ tri_result.status = "pending"
    /\ tri_result' = vec_to_tri(tri_vectors)
    /\ UNCHANGED tri_vectors

\* tf.log(x) of a float: NaN below zero, -infinity at zero.
tf_log(x) == IF x > 0 THEN <<x, 1>> ELSE IF x = 0 THEN <<0, 1>> ELSE <<0, 0>>

\* tf.diag_part(chol)
diag_part(m) == [i \in DOMAIN m |-> m[i][i]]

\* log_cholesky_det(chol): 2 * tf.reduce_sum(tf.log(tf.diag_part(chol)))
log_cholesky_det(m) ==
    LET logs == [i \in DOMAIN m |-> tf_log(diag_part(m)[i])]
        total == LogSum(logs)
    IN  LogAdd(total, total)

\* Lower-triangular N x N matrices, N in 1..MaxDim.
MatrixEntries == {-1, 0, 1, 2}

LowerTriangular(N) ==
    {m \in [1..N -> [1..N -> MatrixEntries]] :
        \A i \in 1..N : \A j \in 1..N : j > i => m[i][j] = 0}

CholInit ==
    /\ chol \in UNION {LowerTriangular(N) : N \in 1..MaxDim}
    /\ chol_result = Pending

\* The call log_cholesky_det(chol).
LogCholeskyDet ==
    /\ chol_result.status = "pending"
    /\ chol_result' = [status |-> "returned", value |-> log_cholesky_det(chol)]
    /\ UNCHANGED chol

\* ------------------------------------------------- sensitive_from_numpy.py

Min(a, b) == IF a < b THEN a ELSE b

\* a[::step] of numpy: rows 0, step, 2 * step, ... of a.
slice_step(a, step) ==
    [k \in 1..((Len(a) + step - 1) \div step) |-> a[(k - 1) * step + 1]]

\* np.concatenate((a, b), -1): row k of a followed by row k of b.
concatenate(a, b) == [k \in DOMAIN a |-> a[k] \o b[k]]

\* _inducing_inputs(max_num_inducing, train, s_as_input)
_inducing_inputs(max_num_inducing, train, s_as_input) ==
    LET num_train == Len(train.x)
        num_inducing == Min(num_train, max_num_inducing)
    IN  IF num_inducing = 0
        THEN [status |-> "raised", exc |-> "ZeroDivisionError"]
        ELSE IF s_as_input
        THEN [status |-> "returned",
              value |-> concatenate(slice_step(train.x, num_train \div num_inducing),
                                    slice_step(train.s, num_train \div num_inducing))]
        ELSE [status |-> "returned",
              value |-> slice_step(train.x, num_train \div num_inducing)]

\* Training data of n rows: row i of x and of s, each one column wide.
TrainData(n) ==
    [x |-> [i \in 1..n |-> <<(<<"x", i>>)>>], s |-> [i \in 1..n |-> <<(<<"s", i>>)>>]]

IndInit ==
    /\ ind_in \in [max_num_inducing : 1..MaxInducing,
                   train : {TrainData(n) : n \in 1..MaxTrain},
                   s_as_input : BOOLEAN]
    /\ ind_result = Pending

\* The call _inducing_inputs(flags['num_inducing'], train, s_as_input) of line 30.
InducingInputs ==
    /\ ind_result.status = "pending"
    /\ ind_result' = _inducing_inputs(ind_in.max_num_inducing, ind_in.train,
                                      ind_in.s_as_input)
    /\ UNCHANGED ind_in

\* ----------------------------------------------------------- specifications

LRIdle ==
    /\ cls = "idle" /\ args = "idle" /\ features = <<>> /\ outputs = <<>>
    /\ is_train = FALSE /\ frame = "idle"
    /\ n_calls = 0 /\ n_train_calls = 0 /\ n_engine_calls = 0

AsmIdle == asm_in = "idle" /\ asm_result = "idle"

TriIdle == tri_vectors = "idle" /\ tri_result = "idle"

CholIdle == chol = "idle" /\ chol_result = "idle"

IndIdle == ind_in = "idle" /\ ind_result = "idle"

\* A single inference call on a model.
LRNext == Inference /\ UNCHANGED <<asmVars, triVars, cholVars, indVars>>

InitLR == LRInit /\ AsmIdle /\ TriIdle /\ CholIdle /\ IndIdle

SpecLR == InitLR /\ [][LRNext]_vars

\* A run of inference calls on one model.
RunNext == RunStep /\ UNCHANGED <<asmVars, triVars, cholVars, indVars>>

SpecRun == InitLR /\ [][RunNext]_vars

\* The model assembly.
AsmNext == ConstructFromFlags /\ UNCHANGED <<lrVars, triVars, cholVars, indVars>>

InitAsm == AsmInit /\ LRIdle /\ TriIdle /\ CholIdle /\ IndIdle

SpecAsm == InitAsm /\ [][AsmNext]_vars

\* The triangular unpacking.
TriNext == VecToTri /\ UNCHANGED <<lrVars, asmVars, cholVars, indVars>>

InitTri == TriInit /\ LRIdle /\ AsmIdle /\ CholIdle /\ IndIdle

SpecTri == InitTri /\ [][TriNext]_vars

\* The log-determinant.
CholNext == LogCholeskyDet /\ UNCHANGED <<lrVars, asmVars, triVars, indVars>>

InitChol == CholInit /\ LRIdle /\ AsmIdle /\ TriIdle /\ IndIdle

SpecChol == InitChol /\ [][CholNext]_vars

\* The inducing inputs.
IndNext == InducingInputs /\ UNCHANGED <<lrVars, asmVars, triVars, cholVars>>

InitInd == IndInit /\ LRIdle /\ AsmIdle /\ TriIdle /\ CholIdle

SpecInd == InitInd /\ [][IndNext]_vars

\* ------------------------------------------------------------------- claims

Self == [cls |-> cls, args |-> args]

FairClasses == {"FairLogReg", "EqOddsLogReg"}

\* The last call was a training-mode call on a fair model.
TrainedFair == n_calls > 0 /\ is_train /\ cls \in FairClasses

\* The last call was a call with is_train false on a fair model.
EvaluatedFair == n_calls > 0 /\ ~is_train /\ cls \in FairClasses

\* The tensor the engine of the model's class returns for its flags.
EngineTensor ==
    IF cls = "EqOddsLogReg" THEN args.target_tpr_tensor ELSE args.target_rate_tensor

\* The likelihood of the true label y at input x: sigmoid is x / 4.
LabelLik(x, y) == IF y = 1 THEN x ELSE 4 - x

RECURSIVE LikProduct(_, _, _)
LikProduct(f, o, i) ==
    IF i > Len(o) THEN <<1, 1>>
    ELSE LET rest == LikProduct(f, o, i + 1)
         IN  <<LabelLik(f.input[i], o[i][1]) * rest[1], 4 * rest[2]>>

\* The plain negative mean log-likelihood of the true labels.
PlainNLL(f, o) == [arg |-> Norm(LogNeg(LikProduct(f, o, 1))), cnt |-> Len(o)]

\* C1 as stated: with an all-zero debiasing tensor the training-mode result
\* of a fair model is the result of the baseline LogReg.inference on the same
\* batch.
C1_ZeroDebiasIsBaseline ==
    (TrainedFair /\ frame.log_debias = AllZeroTensor)
        => frame.ret = LogReg_inference(Self, features, outputs, is_train).ret

\* C1 as amended: with an all-zero debiasing tensor the training-mode
\* regr_loss is 0 for every batch (log-sum-exp of log sigmoid(-l) and
\* log sigmoid(l) is log 1); the result is the baseline's, the plain negative
\* mean log-likelihood of the true labels, when the tensor is the logarithm of
\* the identity (0 where y' = y, -infinity elsewhere).
C1_ZeroDebiasIsZeroLoss ==
    /\ (TrainedFair /\ frame.log_debias = AllZeroTensor)
        => /\ frame.ret.regr_loss = [arg |-> <<1, 1>>, cnt |-> Len(outputs)]
           /\ frame.ret.l2_loss = LogReg_inference(Self, features, outputs, is_train).ret.l2_loss
    /\ (TrainedFair /\ frame.log_debias = LogIdentityTensor)
        => /\ frame.ret = LogReg_inference(Self, features, outputs, is_train).ret
           /\ frame.ret.regr_loss = PlainNLL(features, outputs)

C1_Witness ==
    /\ TrainedFair
    /\ frame.log_debias = LogIdentityTensor
    /\ Len(outputs) = 2
    /\ outputs[1] # outputs[2]
    /\ features.input[1] = 1

\* C8: in a training-mode call on a fair model, example i with label y and
\* group s gets the terms log_debias[y, s, 0] + log sigmoid(-logit_i) and
\* log_debias[y, s, 1] + log sigmoid(logit_i), and its share of the loss is
\* the log-sum-exp of the two.
C8_CorrectionTerms ==
    TrainedFair =>
        /\ DOMAIN frame.weighted_log_lik = DOMAIN outputs
        /\ \A i \in DOMAIN outputs :
            LET y == outputs[i][1]
                s == features.sensitive[i][1]
                x == features.input[i]
            IN  /\ frame.weighted_log_lik[i][0]
                     = LogAdd(EngineTensor[y][s][0], Norm(<<4 - x, 4>>))
                /\ frame.weighted_log_lik[i][1]
                     = LogAdd(EngineTensor[y][s][1], Norm(<<x, 4>>))
        /\ frame.ret.regr_loss
             = neg_mean(reduce_mean([i \in DOMAIN outputs |->
                   LogSumExp2(frame.weighted_log_lik[i][0], frame.weighted_log_lik[i][1])]))

C8_Witness ==
    /\ TrainedFair
    /\ frame.log_debias = OddsTensor
    /\ Len(outputs) = 2
    /\ outputs[1] = <<0>> /\ features.sensitive[1] = <<1>>
    /\ outputs[2] = <<1>> /\ features.sensitive[2] = <<0>>

C7_EngineOncePerRun == n_engine_calls <= 1

\* C7 as amended: the debiasing engine is invoked once in every
\* training-mode inference call of a fair model (once per batch, not once per
\* run), in no other call, and every such call uses the tensor the engine
\* returns for the model's flags.
C7_EngineOncePerTrainingCall ==
    /\ cls \in FairClasses => n_engine_calls = n_train_calls
    /\ cls = "LogReg" => n_engine_calls = 0
    /\ TrainedFair => frame.engine_calls = 1 /\ frame.log_debias = EngineTensor

C7_Witness ==
    /\ cls = "EqOddsLogReg"
    /\ n_train_calls = 2
    /\ n_engine_calls = 2
    /\ TrainedFair

AllNamesResolve(in) ==
    /\ in.flags.cov \in cov_registry
    /\ in.liklihood_name \in lik_registry
    /\ in.flags.inf \in inf_registry
    /\ in.flags.optimizer \in optimizer_registry

\* C2: construct_from_flags returns for every resolvable configuration, with
\* one kernel per output dimension and with hyper_params the likelihood's
\* parameters followed by the parameters of kernel 0, kernel 1, ... in that
\* order, each parameter once.
C2_HyperParamsOrder ==
    /\ (asm_result.status # "pending" /\ AllNamesResolve(asm_in))
        => asm_result.status = "returned"
    /\ asm_result.status = "returned" =>
        LET n == asm_in.output_dim
            L == param_names(asm_in.liklihood_name)
            K == param_names(asm_in.flags.cov)
            hp == asm_result.hyper_params
            kernels == asm_result.gp.cov_func
        IN  /\ Len(kernels) = n
            /\ \A i \in 1..n :
                kernels[i].class = asm_in.flags.cov /\ kernels[i].id = <<"cov", i - 1>>
            /\ Len(hp) = Len(L) + n * Len(K)
            /\ \A p \in 1..Len(L) : hp[p] = [owner |-> <<"lik", 0>>, name |-> L[p]]
            /\ \A i \in 0..(n - 1) : \A j \in 1..Len(K) :
                hp[Len(L) + i * Len(K) + j] = [owner |-> <<"cov", i>>, name |-> K[j]]

C2_Witness ==
    /\ asm_result.status = "returned"
    /\ asm_in.output_dim >= 2
    /\ asm_in.flags.cov = "SquaredExponential"
    /\ asm_in.liklihood_name = "LikelihoodGaussian"

\* C3: a kernel, likelihood, inference or optimizer name that does not
\* resolve makes construct_from_flags raise; it returns no triple.
C3_UnresolvedNameRaises ==
    (asm_result.status # "pending" /\ ~AllNamesResolve(asm_in))
        => asm_result.status = "raised"

\* M is the N-th triangular number.
IsTriangular(M, N) == M = tri_vec_shape(N)

\* C4: vec_to_tri raises for a length M that is no triangular number, and for
\* M = N(N+1)/2 it passes the check with the dimension N.
C4_LengthValidated ==
    tri_result.status # "pending" =>
        LET M == Len(tri_vectors[1])
        IN  IF \E N \in 1..M : IsTriangular(M, N)
            THEN /\ tri_result.status = "returned"
                 /\ IsTriangular(M, tri_result.N)
            ELSE tri_result.status = "raised"

\* The matrix the vector v of length N(N+1)/2 unpacks to.
LowerTriangleOf(v, m, N) ==
    \A i \in 0..(N - 1) : \A j \in 0..(N - 1) :
        m[i][j] = IF j <= i THEN v[(i * (i + 1)) \div 2 + j + 1] ELSE 0

\* C5: for a vector of length N(N+1)/2, vec_to_tri returns for each row the
\* N x N matrix whose entry (i, j), j <= i, is v[i(i+1)/2 + j] and whose
\* entries above the diagonal are zero.
C5_LowerTriangleFilled ==
    tri_result.status # "pending" =>
        LET M == Len(tri_vectors[1])
        IN  \A N \in 1..M :
                IsTriangular(M, N) =>
                    /\ tri_result.status = "returned"
                    /\ \A d \in DOMAIN tri_vectors :
                        LowerTriangleOf(tri_vectors[d], tri_result.value[d], N)

\* Lines 65 to 72 alone, for a module namespace that binds np, validate the
\* length and fill the lower triangle row by row.
VecToTriBodyUnpacks ==
    tri_result.status # "pending" =>
        LET M == Len(tri_vectors[1])
            r == vec_to_tri_body(tri_vectors)
        IN  IF \E N \in 1..M : IsTriangular(M, N)
            THEN /\ r.status = "returned"
                 /\ IsTriangular(M, r.N)
                 /\ \A d \in DOMAIN tri_vectors :
                        LowerTriangleOf(tri_vectors[d], r.value[d], r.N)
            ELSE r.status = "raised" /\ r.exc = "AssertionError"

RECURSIVE DiagProduct(_, _)
DiagProduct(m, i) == IF i > Len(m) THEN 1 ELSE m[i][i] * DiagProduct(m, i + 1)

\* C6: log_cholesky_det returns 2 * sum(log(diagonal)) for a positive
\* diagonal, and for a diagonal with an entry <= 0 it raises or returns
\* -infinity, never a finite number or NaN.
C6_LogDetGuarded ==
    chol_result.status # "pending" =>
        IF \A i \in DOMAIN chol : chol[i][i] > 0
        THEN /\ chol_result.status = "returned"
             /\ chol_result.value = <<DiagProduct(chol, 1) * DiagProduct(chol, 1), 1>>
        ELSE \/ chol_result.status = "raised"
             \/ chol_result.status = "returned" /\ chol_result.value = <<0, 1>>

\* C10: _inducing_inputs returns at least one and at most
\* min(num_train, max_num_inducing) rows.
C10_AtMostMaxInducing ==
    ind_result.status # "pending" =>
        /\ ind_result.status = "returned"
        /\ Len(ind_result.value) >= 1
        /\ Len(ind_result.value) <= Min(Len(ind_in.train.x), ind_in.max_num_inducing)

====
